---- MODULE Spec2Model ----
(***************************************************************************)
(* HomeScreen of app/(tabs)/index.tsx: a React screen bound to a live      *)
(* Firestore query of the "todos" collection.  The model holds the         *)
(* component's three state hooks, the listener registered by its effect,   *)
(* the asynchronous store and auth calls its handlers issue, the dialogs   *)
(* and alerts they raise, and the store itself.                            *)
(*                                                                         *)
(* Text is a sequence of characters over Chars; " " is the only whitespace.*)
(***************************************************************************)
EXTENDS Integers, Sequences, FiniteSets, TLC

MaxLen == 2
MaxCalls == 2
MaxTime == 1
MaxDialogs == 1
MaxAlerts == 1

Chars == {" ", "x"}

RECURSIVE StringsUpTo(_)
StringsUpTo(n) ==
  IF n = 0 THEN {<<>>}
  ELSE LET S == StringsUpTo(n - 1)
       IN  S \cup {Append(s, c) : s \in {t \in S : Len(t) = n - 1}, c \in Chars}

Strings == StringsUpTo(MaxLen)

VARIABLES
  phase,        \* "rendered" (first render done, effect not yet run), "mounted", "unmounted"
  todos,        \* useState<Todo[]>
  inputText,    \* useState("")
  loading,      \* useState(true)
  listeners,    \* listeners open on the query
  opened,       \* number of onSnapshot calls made so far
  snapQ,        \* snapshots emitted to the listener, not yet handed to its callback
  lastSnapshot, \* <<S>> for the snapshot S most recently handed to the callback, <<>> before
  docs,         \* the "todos" collection: document id -> fields
  now,          \* the client clock read by new Date()
  calls,        \* every store/auth call issued, in order, with its progress
  accepted,     \* user actions that passed validation / confirmation
  dialogs,      \* confirmation dialogs on screen
  alerts        \* messages of the error alerts raised, in order

vars == <<phase, todos, inputText, loading, listeners, opened, snapQ, lastSnapshot,
          docs, now, calls, accepted, dialogs, alerts>>

(***************************************************************************)
(* Pure helpers                                                            *)
(***************************************************************************)

\* String.prototype.trim: drop leading and trailing whitespace.
RECURSIVE TrimStart(_)
TrimStart(s) ==
  IF s # <<>> /\ Head(s) = " " THEN TrimStart(Tail(s)) ELSE s

RECURSIVE TrimEnd(_)
TrimEnd(s) ==
  IF s # <<>> /\ s[Len(s)] = " " THEN TrimEnd(SubSeq(s, 1, Len(s) - 1)) ELSE s

\* Mutant of Trim: only the leading whitespace is dropped.
TrimLeadingOnly(s) == TrimStart(s)

Trim(s) == TrimEnd(TrimStart(s))

\* query(todosCollection, orderBy("createdAt", "desc")): newest first; documents
\* of equal createdAt are ordered by document id, descending.
RECURSIVE OrderDesc(_, _)
OrderDesc(store, ids) ==
  IF ids = {} THEN <<>>
  ELSE LET d == CHOOSE x \in ids :
                  \A y \in ids \ {x} :
                     \/ store[x].createdAt > store[y].createdAt
                     \/ store[x].createdAt = store[y].createdAt /\ x > y
       IN  <<[id |-> d, data |-> store[d]]>> \o OrderDesc(store, ids \ {d})

\* The query snapshot of a store: its documents in query order.
QuerySnapshot(store) == OrderDesc(store, DOMAIN store)

\* { id: doc.id, ...doc.data() }: the fields of the document laid over its id.
TodoOf(d) == d.data @@ [id |-> d.id]

\* Mutant of MapDocs: the new entries are added to the list already displayed.
MapDocsKeepingEarlier(snapshot) ==
  todos \o [i \in 1..Len(snapshot) |-> TodoOf(snapshot[i])]

\* snapshot.docs.map(...)
MapDocs(snapshot) == [i \in 1..Len(snapshot) |-> TodoOf(snapshot[i])]

(***************************************************************************)
(* State helpers                                                           *)
(***************************************************************************)

Mounted == phase = "mounted"

\* A state setter of an unmounted component does nothing.
SetState(cur, new) == IF Mounted THEN new ELSE cur

\* Alert.alert("Error", msg)
Alert(msg) == Append(alerts, msg)

\* The store emits the new query result to an open listener when a write
\* changes the collection.
Emit(newDocs) ==
  IF listeners # {} /\ newDocs # docs
  THEN Append(snapQ, QuerySnapshot(newDocs))
  ELSE snapQ

NewCall(op, id, text, shown, completed, createdAt) ==
  [op |-> op, id |-> id, text |-> text, shown |-> shown,
   completed |-> completed, createdAt |-> createdAt, status |-> "pending"]

\* The call is handed to the client library; the handler is suspended at await.
Issue(call) ==
  /\ calls' = Append(calls, call)
  /\ accepted' = accepted + 1

InitialStores ==
  { <<>>,
    (0 :> [text |-> <<"x">>, completed |-> FALSE, createdAt |-> 0]) }

Init ==
  /\ phase = "rendered"
  /\ todos = <<>>
  /\ inputText = <<>>
  /\ loading = TRUE
  /\ listeners = {}
  /\ opened = 0
  /\ snapQ = <<>>
  /\ lastSnapshot = <<>>
  /\ docs \in InitialStores
  /\ now = 0
  /\ calls = <<>>
  /\ accepted = 0
  /\ dialogs = <<>>
  /\ alerts = <<>>

(***************************************************************************)
(* The effect: subscribe on mount, unsubscribe on unmount                  *)
(***************************************************************************)

\* useEffect(() => { const unsubscribe = onSnapshot(q, next, error); ... }, [])
Mount ==
  /\ phase = "rendered"
  /\ phase' = "mounted"
  /\ opened' = opened + 1
  /\ listeners' = listeners \cup {opened + 1}
  /\ snapQ' = <<QuerySnapshot(docs)>>
  /\ UNCHANGED <<todos, inputText, loading, lastSnapshot, docs, now,
                 calls, accepted, dialogs, alerts>>

\* Mutant of Unmount: the effect returns no cleanup, the listener stays open.
UnmountWithoutUnsubscribe ==
  /\ phase = "mounted"
  /\ phase' = "unmounted"
  /\ UNCHANGED <<todos, inputText, loading, listeners, opened, snapQ, lastSnapshot,
                 docs, now, calls, accepted, dialogs, alerts>>

\* return () => unsubscribe()
Unmount ==
  /\ phase = "mounted"
  /\ phase' = "unmounted"
  /\ listeners' = {}
  /\ snapQ' = <<>>
  /\ UNCHANGED <<todos, inputText, loading, opened, lastSnapshot, docs,
                 now, calls, accepted, dialogs, alerts>>

\* (snapshot) => { setTodos(snapshot.docs.map(...)); setLoading(false); }
OnSnapshotNext ==
  /\ listeners # {}
  /\ snapQ # <<>>
  /\ snapQ' = Tail(snapQ)
  /\ lastSnapshot' = <<Head(snapQ)>>
  /\ todos' = SetState(todos, MapDocs(Head(snapQ)))
  /\ loading' = SetState(loading, FALSE)
  /\ UNCHANGED <<phase, inputText, listeners, opened, docs, now, calls,
                 accepted, dialogs, alerts>>

\* Mutant of OnSnapshotError: the error callback forgets setLoading(false).
OnSnapshotErrorKeepsLoading ==
  /\ listeners # {}
  /\ listeners' = {}
  /\ snapQ' = <<>>
  /\ alerts' = Alert("Failed to load todos")
  /\ UNCHANGED <<phase, todos, inputText, loading, opened, lastSnapshot, docs, now,
                 calls, accepted, dialogs>>

\* (error) => { Alert.alert("Error", "Failed to load todos"); setLoading(false); }
\* A listener that has reported an error receives no further events.
OnSnapshotError ==
  /\ listeners # {}
  /\ listeners' = {}
  /\ snapQ' = <<>>
  /\ alerts' = Alert("Failed to load todos")
  /\ loading' = SetState(loading, FALSE)
  /\ UNCHANGED <<phase, todos, inputText, opened, lastSnapshot, docs, now,
                 calls, accepted, dialogs>>

(***************************************************************************)
(* User actions                                                            *)
(***************************************************************************)

\* onChangeText={setInputText}
ChangeText(t) ==
  /\ Mounted
  /\ t # inputText
  /\ inputText' = t
  /\ UNCHANGED <<phase, todos, loading, listeners, opened, snapQ, lastSnapshot, docs,
                 now, calls, accepted, dialogs, alerts>>

\* Mutant of CreateTodo: the new item is put in the list before the store answers.
CreateTodoOptimistic ==
  /\ Mounted
  /\ IF Trim(inputText) = <<>>
     THEN /\ Len(alerts) < MaxAlerts
          /\ alerts' = Alert("Please enter a todo item")
          /\ UNCHANGED <<calls, accepted, todos>>
     ELSE /\ Len(calls) < MaxCalls
          /\ Issue(NewCall("add", Len(calls) + 1, Trim(inputText), FALSE, FALSE, now))
          /\ todos' = <<[id |-> Len(calls) + 1, text |-> Trim(inputText),
                         completed |-> FALSE, createdAt |-> now]>> \o todos
          /\ UNCHANGED alerts
  /\ UNCHANGED <<phase, inputText, loading, listeners, opened, snapQ,
                 lastSnapshot, docs, now, dialogs>>

\* Mutant of CreateTodo: the input is cleared before the insert is awaited.
CreateTodoClearsBeforeAwait ==
  /\ Mounted
  /\ IF Trim(inputText) = <<>>
     THEN /\ Len(alerts) < MaxAlerts
          /\ alerts' = Alert("Please enter a todo item")
          /\ UNCHANGED <<calls, accepted, inputText>>
     ELSE /\ Len(calls) < MaxCalls
          /\ Issue(NewCall("add", Len(calls) + 1, Trim(inputText), FALSE, FALSE, now))
          /\ inputText' = <<>>
          /\ UNCHANGED alerts
  /\ UNCHANGED <<phase, todos, loading, listeners, opened, snapQ,
                 lastSnapshot, docs, now, dialogs>>

\* createTodo, up to the await
CreateTodo ==
  /\ Mounted
  /\ IF Trim(inputText) = <<>>
     THEN /\ Len(alerts) < MaxAlerts
          /\ alerts' = Alert("Please enter a todo item")
          /\ UNCHANGED <<calls, accepted>>
     ELSE /\ Len(calls) < MaxCalls
          /\ Issue(NewCall("add", Len(calls) + 1, Trim(inputText), FALSE, FALSE, now))
          /\ UNCHANGED alerts
  /\ UNCHANGED <<phase, todos, inputText, loading, listeners, opened, snapQ,
                 lastSnapshot, docs, now, dialogs>>

\* Mutant of ToggleTodo: the value written negates what the store holds now.
ToggleTodoFromStore(i) ==
  /\ Mounted
  /\ ~loading
  /\ i \in 1..Len(todos)
  /\ Len(calls) < MaxCalls
  /\ LET current == IF todos[i].id \in DOMAIN docs
                    THEN docs[todos[i].id].completed
                    ELSE todos[i].completed
     IN  Issue(NewCall("update", todos[i].id, <<>>, todos[i].completed, ~current, 0))
  /\ UNCHANGED <<phase, todos, inputText, loading, listeners, opened, snapQ,
                 lastSnapshot, docs, now, dialogs, alerts>>

\* onPress={() => toggleTodo(todo.id, todo.completed)}, up to the await
ToggleTodo(i) ==
  /\ Mounted
  /\ ~loading
  /\ i \in 1..Len(todos)
  /\ Len(calls) < MaxCalls
  /\ Issue(NewCall("update", todos[i].id, <<>>, todos[i].completed,
                   ~todos[i].completed, 0))
  /\ UNCHANGED <<phase, todos, inputText, loading, listeners, opened, snapQ,
                 lastSnapshot, docs, now, dialogs, alerts>>

\* Mutant of DeleteTodo: the delete is issued at once, with no dialog.
DeleteTodoWithoutDialog(i) ==
  /\ Mounted
  /\ ~loading
  /\ i \in 1..Len(todos)
  /\ Len(calls) < MaxCalls
  /\ Issue(NewCall("delete", todos[i].id, <<>>, FALSE, FALSE, 0))
  /\ UNCHANGED <<phase, todos, inputText, loading, listeners, opened, snapQ,
                 lastSnapshot, docs, now, dialogs, alerts>>

\* onPress={() => deleteTodo(todo.id)}: only the confirmation dialog
DeleteTodo(i) ==
  /\ Mounted
  /\ ~loading
  /\ i \in 1..Len(todos)
  /\ Len(dialogs) < MaxDialogs
  /\ dialogs' = Append(dialogs, [kind |-> "delete", id |-> todos[i].id])
  /\ UNCHANGED <<phase, todos, inputText, loading, listeners, opened, snapQ,
                 lastSnapshot, docs, now, calls, accepted, alerts>>

\* onPress={handleLogout}: only the confirmation dialog
HandleLogout ==
  /\ Mounted
  /\ Len(dialogs) < MaxDialogs
  /\ dialogs' = Append(dialogs, [kind |-> "logout", id |-> 0])
  /\ UNCHANGED <<phase, todos, inputText, loading, listeners, opened, snapQ,
                 lastSnapshot, docs, now, calls, accepted, alerts>>

Without(seq, k) == SubSeq(seq, 1, k - 1) \o SubSeq(seq, k + 1, Len(seq))

\* { text: "Cancel", style: "cancel" }: the dialog closes, nothing runs
PressCancel(k) ==
  /\ k \in 1..Len(dialogs)
  /\ dialogs' = Without(dialogs, k)
  /\ UNCHANGED <<phase, todos, inputText, loading, listeners, opened, snapQ,
                 lastSnapshot, docs, now, calls, accepted, alerts>>

\* The destructive button's onPress, up to the await
PressDestructive(k) ==
  /\ k \in 1..Len(dialogs)
  /\ Len(calls) < MaxCalls
  /\ dialogs' = Without(dialogs, k)
  /\ IF dialogs[k].kind = "delete"
     THEN Issue(NewCall("delete", dialogs[k].id, <<>>, FALSE, FALSE, 0))
     ELSE Issue(NewCall("logout", 0, <<>>, FALSE, FALSE, 0))
  /\ UNCHANGED <<phase, todos, inputText, loading, listeners, opened, snapQ,
                 lastSnapshot, docs, now, alerts>>

(***************************************************************************)
(* The store and the auth provider                                         *)
(***************************************************************************)

Restrict(f, S) == [x \in S |-> f[x]]

\* The effect of a call on the collection.
Written(c) ==
  CASE c.op = "add" ->
         (c.id :> [text |-> c.text, completed |-> c.completed,
                   createdAt |-> c.createdAt]) @@ docs
    [] c.op = "update" ->
         [docs EXCEPT ![c.id] = [@ EXCEPT !.completed = c.completed]]
    [] c.op = "delete" -> Restrict(docs, DOMAIN docs \ {c.id})
    [] OTHER -> docs

\* The write of a pending call takes effect.  updateDoc needs its document.
StoreApply(k) ==
  /\ k \in 1..Len(calls)
  /\ calls[k].status = "pending"
  /\ calls[k].op = "update" => calls[k].id \in DOMAIN docs
  /\ docs' = Written(calls[k])
  /\ snapQ' = Emit(docs')
  /\ calls' = [calls EXCEPT ![k].status = "applied"]
  /\ UNCHANGED <<phase, todos, inputText, loading, listeners, opened, lastSnapshot,
                 now, accepted, dialogs, alerts>>

\* The awaited promise resolves and the handler runs to its end.
Resolve(k) ==
  /\ k \in 1..Len(calls)
  /\ calls[k].status = "applied"
  /\ calls' = [calls EXCEPT ![k].status = "resolved"]
  /\ inputText' = IF calls[k].op = "add" THEN SetState(inputText, <<>>) ELSE inputText
  /\ UNCHANGED <<phase, todos, loading, listeners, opened, snapQ, lastSnapshot, docs,
                 now, accepted, dialogs, alerts>>

FailureMessage(op) ==
  CASE op = "add" -> "Failed to add todo"
    [] op = "update" -> "Failed to update todo"
    [] op = "delete" -> "Failed to delete todo"
    [] op = "logout" -> "Logout failed"

\* Mutant of Reject: the catch block alerts and issues the failed call again.
RejectAndRetry(k) ==
  /\ k \in 1..Len(calls)
  /\ calls[k].status = "pending"
  /\ calls' = Append([calls EXCEPT ![k].status = "rejected"], calls[k])
  /\ alerts' = Alert(FailureMessage(calls[k].op))
  /\ UNCHANGED <<phase, todos, inputText, loading, listeners, opened, snapQ,
                 lastSnapshot, docs, now, accepted, dialogs>>

\* The awaited promise rejects and the handler's catch block runs.
Reject(k) ==
  /\ k \in 1..Len(calls)
  /\ calls[k].status = "pending"
  /\ calls' = [calls EXCEPT ![k].status = "rejected"]
  /\ alerts' = Alert(FailureMessage(calls[k].op))
  /\ UNCHANGED <<phase, todos, inputText, loading, listeners, opened, snapQ,
                 lastSnapshot, docs, now, accepted, dialogs>>

\* The client clock advances.
Tick ==
  /\ now < MaxTime
  /\ now' = now + 1
  /\ UNCHANGED <<phase, todos, inputText, loading, listeners, opened, snapQ,
                 lastSnapshot, docs, calls, accepted, dialogs, alerts>>

Next ==
  \/ Mount
  \/ Unmount
  \/ OnSnapshotNext
  \/ OnSnapshotError
  \/ \E t \in Strings : ChangeText(t)
  \/ CreateTodo
  \/ \E i \in 1..Len(todos) : ToggleTodo(i)
  \/ \E i \in 1..Len(todos) : DeleteTodo(i)
  \/ HandleLogout
  \/ \E k \in 1..Len(dialogs) : PressCancel(k)
  \/ \E k \in 1..Len(dialogs) : PressDestructive(k)
  \/ \E k \in 1..Len(calls) : StoreApply(k)
  \/ \E k \in 1..Len(calls) : Resolve(k)
  \/ \E k \in 1..Len(calls) : Reject(k)
  \/ Tick

Spec == Init /\ [][Next]_vars

(***************************************************************************)
(* Vocabulary of the properties: what a step did, read off the two states  *)
(***************************************************************************)

Count(seq, x) == Cardinality({i \in 1..Len(seq) : seq[i] = x})

CallsWith(op, status) ==
  Cardinality({k \in 1..Len(calls) : calls[k].op = op /\ calls[k].status = status})

\* The step issued a call: the log grew.
Issued == Len(calls') > Len(calls)
IssuedCall == calls'[Len(calls')]
IssuedOne ==
  /\ Len(calls') = Len(calls) + 1
  /\ SubSeq(calls', 1, Len(calls)) = calls
  /\ IssuedCall.status = "pending"

\* The step moved call k from one status to another.
Moved(k, from, to) ==
  /\ k \in 1..Len(calls)
  /\ Len(calls') >= k
  /\ calls[k].status = from
  /\ calls'[k].status = to

\* The step handed a snapshot to the listener's callback.
Delivered == snapQ # <<>> /\ lastSnapshot' = <<Head(snapQ)>> /\ snapQ' = Tail(snapQ)

\* The step was the listener's error callback.
ListenerFailed == listeners # {} /\ listeners' = {} /\ phase' = phase

\* The step raised exactly the alert msg.
Raised(msg) == alerts' = Append(alerts, msg)

Blank(s) == \A i \in 1..Len(s) : s[i] = " "

\* t is s without its leading and trailing whitespace.
IsTrimOf(t, s) ==
  /\ \E i \in 0..Len(s) : \E j \in i..Len(s) :
        /\ t = SubSeq(s, i + 1, j)
        /\ \A n \in 1..i : s[n] = " "
        /\ \A n \in (j + 1)..Len(s) : s[n] = " "
  /\ t # <<>> => t[1] # " " /\ t[Len(t)] # " "

(***************************************************************************)
(* C1: the subscription is opened exactly once, by the mount, and released *)
(* by the unmount: at most one listener is ever open, no step other than   *)
(* the mount opens one, none is open after the unmount, and after the      *)
(* unmount nothing changes the screen's todos or loading flag.             *)
(***************************************************************************)
C1_SubscriptionLifecycle ==
  /\ [](/\ opened <= 1
        /\ Cardinality(listeners) <= 1
        /\ phase = "rendered" => opened = 0 /\ listeners = {}
        /\ phase = "mounted" => opened = 1
        /\ phase = "unmounted" => opened = 1 /\ listeners = {} /\ snapQ = <<>>)
  /\ [][/\ (opened' # opened \/ ~(listeners' \subseteq listeners))
             => phase = "rendered" /\ phase' = "mounted"
        /\ phase = "unmounted" => todos' = todos /\ loading' = loading]_vars

\* The screen is gone, and the store has since moved away from what it last showed.
C1_Witness ==
  /\ phase = "unmounted"
  /\ lastSnapshot # <<>>
  /\ QuerySnapshot(docs) # lastSnapshot[1]
  /\ \E k \in 1..Len(calls) : calls[k].status = "resolved"

(***************************************************************************)
(* C2: the displayed list is exactly the snapshot most recently handed to  *)
(* the callback: one entry per document, with the document's id and        *)
(* fields, in the snapshot's order; it is empty before the first snapshot. *)
(***************************************************************************)
C2_ReadThroughProjection ==
  IF lastSnapshot = <<>>
  THEN todos = <<>>
  ELSE LET S == lastSnapshot[1]
       IN  /\ Len(todos) = Len(S)
           /\ \A i \in 1..Len(S) :
                /\ DOMAIN todos[i] = {"id", "text", "completed", "createdAt"}
                /\ todos[i].id = S[i].id
                /\ todos[i].text = S[i].data.text
                /\ todos[i].completed = S[i].data.completed
                /\ todos[i].createdAt = S[i].data.createdAt

\* A second snapshot replaced a longer first one.
C2_Witness ==
  /\ Mounted
  /\ lastSnapshot # <<>>
  /\ Len(todos) = 1
  /\ Cardinality(DOMAIN docs) = 1
  /\ \E k \in 1..Len(calls) : calls[k].op = "delete" /\ calls[k].status = "resolved"
  /\ \E k \in 1..Len(calls) : calls[k].op = "add" /\ calls[k].status = "resolved"

(***************************************************************************)
(* C3: no handler changes the displayed list.  The list changes only in    *)
(* the step that hands a snapshot to the callback, so an item created by   *)
(* this screen is displayed only once the store has taken the write.       *)
(***************************************************************************)
C3_NoLocalCopy ==
  /\ [][todos' # todos =>
          /\ Delivered
          /\ calls' = calls
          /\ dialogs' = dialogs
          /\ alerts' = alerts]_vars
  /\ [](\A i \in 1..Len(todos) : \A k \in 1..Len(calls) :
          calls[k].op = "add" /\ calls[k].id = todos[i].id
            => calls[k].status \in {"applied", "resolved"})

\* A create has succeeded and the list does not show it yet.
C3_Witness ==
  /\ Mounted
  /\ ~loading
  /\ \E k \in 1..Len(calls) :
        /\ calls[k].op = "add"
        /\ calls[k].status = "resolved"
        /\ calls[k].id \in DOMAIN docs
        /\ \A i \in 1..Len(todos) : todos[i].id # calls[k].id

(***************************************************************************)
(* C4: a failed call raises exactly one alert, the one of its handler, in  *)
(* the step in which it fails; that step issues no call, so the calls      *)
(* issued are as many as the accepted user actions; and it leaves the      *)
(* screen as it was, so what the user could do before, the user can do     *)
(* after.  The listener's error likewise raises one alert and is not       *)
(* followed by a new subscription.                                         *)
(***************************************************************************)
C4_AlertFor(op) ==
  CASE op = "add" -> "Failed to add todo"
    [] op = "update" -> "Failed to update todo"
    [] op = "delete" -> "Failed to delete todo"
    [] op = "logout" -> "Logout failed"

C4_FailuresCaughtLocally ==
  /\ [](/\ Len(calls) = accepted
        /\ \A op \in {"add", "update", "delete", "logout"} :
             Count(alerts, C4_AlertFor(op)) = CallsWith(op, "rejected")
        /\ Count(alerts, "Failed to load todos") <= 1)
  /\ [][/\ \A k \in 1..Len(calls) :
             Moved(k, "pending", "rejected") =>
               /\ Raised(C4_AlertFor(calls[k].op))
               /\ calls' = [calls EXCEPT ![k].status = "rejected"]
               /\ UNCHANGED <<phase, todos, inputText, loading, dialogs, listeners>>
        /\ ListenerFailed =>
               /\ Raised("Failed to load todos")
               /\ UNCHANGED <<calls, opened, todos, inputText, dialogs>>]_vars

\* Two calls have failed while the screen is up.
C4_Witness ==
  /\ Mounted
  /\ Len(calls) = 2
  /\ calls[1].status = "rejected"
  /\ calls[2].status = "rejected"
  /\ calls[1].op # calls[2].op
  /\ Len(alerts) >= 2

(***************************************************************************)
(* C5: the completion of a pending create does not change text the user    *)
(* typed into the input after submitting it.                               *)
(***************************************************************************)
C5_CompletionKeepsLaterInput ==
  [][\A k \in 1..Len(calls) :
        /\ calls[k].op = "add"
        /\ ~IsTrimOf(calls[k].text, inputText)
        /\ \/ Moved(k, "applied", "resolved")
           \/ Moved(k, "pending", "rejected")
        => inputText' = inputText]_vars

(***************************************************************************)
(* C6: pressing Delete or Logout only opens a dialog.  A delete or logout  *)
(* call is issued only by a step that closes a dialog of that kind, opened *)
(* for the same id, and that step issues exactly one call; closing a       *)
(* dialog without a call (Cancel) changes nothing else.                    *)
(***************************************************************************)
C6_OnlyByConfirmation ==
  [][/\ Len(dialogs') > Len(dialogs) =>
          /\ Len(dialogs') = Len(dialogs) + 1
          /\ UNCHANGED <<calls, accepted, docs, snapQ, alerts, todos, inputText, loading>>
     /\ (Issued /\ IssuedCall.op \in {"delete", "logout"}) =>
          /\ IssuedOne
          /\ \E k \in 1..Len(dialogs) :
               /\ dialogs[k].kind = IssuedCall.op
               /\ dialogs[k].id = IssuedCall.id
               /\ dialogs' = Without(dialogs, k)
     /\ (Len(dialogs') < Len(dialogs) /\ ~Issued) =>
          UNCHANGED <<phase, todos, inputText, loading, listeners, opened, snapQ,
                      lastSnapshot, docs, now, calls, accepted, alerts>>]_vars

\* A confirmed delete has removed its document and no dialog is left.
C6_Witness ==
  /\ dialogs = <<>>
  /\ \E k \in 1..Len(calls) :
        /\ calls[k].op = "delete"
        /\ calls[k].status = "applied"
        /\ calls[k].id \notin DOMAIN docs
  /\ \E k \in 1..Len(calls) : calls[k].op = "logout"

(***************************************************************************)
(* C7: createTodo on blank input raises 'Please enter a todo item' and     *)
(* issues nothing; otherwise it issues one insert of the trimmed input,    *)
(* not completed, stamped with the client clock of that moment.  Neither   *)
(* case touches the input or the list.  So every insert this screen ever   *)
(* issued has non-empty text and completed = false.                        *)
(***************************************************************************)
C7_CreateGuardAndPayload ==
  /\ [][/\ (Issued /\ IssuedCall.op = "add") =>
             /\ IssuedOne
             /\ ~Blank(inputText)
             /\ IsTrimOf(IssuedCall.text, inputText)
             /\ IssuedCall.completed = FALSE
             /\ IssuedCall.createdAt = now
             /\ UNCHANGED <<inputText, todos, alerts, docs>>
        /\ (Len(alerts') > Len(alerts) /\ alerts'[Len(alerts')] = "Please enter a todo item") =>
             /\ Blank(inputText)
             /\ Raised("Please enter a todo item")
             /\ UNCHANGED <<calls, inputText, todos, docs>>]_vars
  /\ [](\A k \in 1..Len(calls) :
          calls[k].op = "add" =>
            /\ calls[k].text # <<>>
            /\ calls[k].text[1] # " "
            /\ calls[k].text[Len(calls[k].text)] # " "
            /\ calls[k].completed = FALSE)

\* A padded input was submitted after the clock moved, and a blank one refused.
C7_Witness ==
  /\ Blank(inputText) /\ inputText # <<>>
  /\ alerts = <<"Please enter a todo item">>
  /\ \E k \in 1..Len(calls) :
        /\ calls[k].op = "add"
        /\ calls[k].text = <<"x">>
        /\ calls[k].createdAt = 1
        /\ calls[k].id \in DOMAIN docs

(***************************************************************************)
(* C8: a successful insert resets the input to the empty text; a failed    *)
(* one leaves it as it is; and nothing but the user's edits and a          *)
(* successful create ever changes the input.                               *)
(***************************************************************************)
C8_InputAfterCreate ==
  [][/\ \A k \in 1..Len(calls) :
          /\ (Moved(k, "applied", "resolved") /\ calls[k].op = "add" /\ Mounted)
                => inputText' = <<>>
          /\ Moved(k, "pending", "rejected") => inputText' = inputText
     /\ inputText' # inputText =>
          \/ UNCHANGED <<phase, todos, loading, listeners, opened, snapQ, lastSnapshot,
                         docs, now, calls, accepted, dialogs, alerts>>
          \/ \E k \in 1..Len(calls) :
                /\ Moved(k, "applied", "resolved")
                /\ calls[k].op = "add"
                /\ inputText' = <<>>]_vars

\* The same text failed once, was submitted again and went through.
C8_Witness ==
  /\ Mounted
  /\ Len(calls) = 2
  /\ calls[1].op = "add" /\ calls[1].status = "rejected"
  /\ calls[2].op = "add" /\ calls[2].status = "resolved"
  /\ calls[1].text = calls[2].text
  /\ inputText = <<>>
  /\ alerts = <<"Failed to add todo">>

(***************************************************************************)
(* C9: loading is true exactly until the listener first hands over a       *)
(* snapshot or an error, and false ever after.  The error raises 'Failed   *)
(* to load todos' and leaves the list as it was.                           *)
(***************************************************************************)
C9_LoadingFlag ==
  /\ [](loading <=> (lastSnapshot = <<>> /\ Count(alerts, "Failed to load todos") = 0))
  /\ [][/\ ~loading => ~loading'
        /\ loading' # loading => Delivered \/ ListenerFailed
        /\ ListenerFailed =>
             /\ Raised("Failed to load todos")
             /\ todos' = todos
             /\ ~loading']_vars

\* The listener failed after it had delivered a list, and the list is still shown.
C9_Witness ==
  /\ Mounted
  /\ ~loading
  /\ todos # <<>>
  /\ alerts = <<"Failed to load todos">>

(***************************************************************************)
(* C10: toggleTodo writes the negation of the flag displayed for the item  *)
(* tapped, whatever the store holds, and the write changes only that       *)
(* document's completed field.                                             *)
(***************************************************************************)
C10_ToggleWritesNegationOfDisplayed ==
  [][/\ (Issued /\ IssuedCall.op = "update") =>
          /\ IssuedOne
          /\ \E i \in 1..Len(todos) :
               /\ IssuedCall.id = todos[i].id
               /\ IssuedCall.completed = ~todos[i].completed
     /\ \A k \in 1..Len(calls) :
          (Moved(k, "pending", "applied") /\ calls[k].op = "update") =>
             /\ DOMAIN docs' = DOMAIN docs
             /\ \A d \in DOMAIN docs :
                  /\ d # calls[k].id => docs'[d] = docs[d]
                  /\ docs'[d].text = docs[d].text
                  /\ docs'[d].createdAt = docs[d].createdAt
             /\ docs'[calls[k].id].completed = calls[k].completed]_vars

\* Two taps with no snapshot in between: both wrote the same value, and the
\* stored flag is flipped once.
C10_Witness ==
  /\ Len(calls) = 2
  /\ calls[1].op = "update" /\ calls[2].op = "update"
  /\ calls[1].id = calls[2].id
  /\ calls[1].status = "resolved" /\ calls[2].status = "resolved"
  /\ calls[1].completed = TRUE /\ calls[2].completed = TRUE
  /\ calls[1].id \in DOMAIN docs
  /\ docs[calls[1].id].completed = TRUE

====
